---- MODULE Spec2Model ----
(***************************************************************************)
(* Model of scripts/avnir_compute_volume_per_label.py: one run of main().  *)
(*                                                                         *)
(* A run is a straight line: check the inputs, check the output, load the  *)
(* label image, optionally load the brain mask and compare geometries,     *)
(* enumerate the labels, compute one entry per label, open the output and  *)
(* dump the report.  Images are flattened voxel sequences; spacings are    *)
(* positive integers (one unit = one spacing quantum); affine entries are  *)
(* integers in units of 1e-8, so that numpy's default tolerances           *)
(* (atol = 1e-8, rtol = 1e-5) are exact integer arithmetic.                *)
(* A quotient is kept as a reduced fraction num/den, or as "inf" / "nan"   *)
(* where numpy's float division by zero yields them.                       *)
(***************************************************************************)
EXTENDS Integers, Sequences, FiniteSets, TLC

\* ---------------------------------------------------------------- bounds
NumVoxels == 3
NumMaskVoxels == 2
MaxLabel == 2

LabelValues == 0..MaxLabel
MaskValues == {0, 1, 2}
ZoomChoices == {<<1, 1, 1>>, <<2, 2, 2>>, <<1, 2, 3>>}
LabelAffines == {<<0, 300000>>, <<1, 300003>>}
MaskAffines == {<<0, 300000>>, <<1, 300003>>, <<2, 300000>>, <<0, 300005>>}

\* np.allclose defaults, in the affine's units (1e-8) and as 1/rtol
AtolUnits == 1
RtolInv == 100000

VARIABLES
    pc,               \* position in main()
    err,              \* the error that ended the run, "" while none
    label_exists,     \* args.input_labels names an existing file
    args_brain_mask,  \* --brain_mask was given
    mask_exists,      \* args.brain_mask names an existing file
    out_exists,       \* args.output_json existed before the run
    overwrite,        \* the overwrite flag was given
    warn_only,        \* the caller asked for warnings instead of errors
    label_data,       \* voxels of the label image
    zooms,            \* label_header.get_zooms()
    label_affine,     \* label_header.get_best_affine()
    brain_mask_data,  \* voxels of the brain mask
    mask_zooms,       \* mask_header.get_zooms()
    mask_affine,      \* mask_header.get_best_affine()
    labels_id,        \* np.unique(label_data[label_data != 0])
    idx,              \* position of the for loop in labels_id
    volumes,          \* the report being built
    output_file       \* what args.output_json holds

vars == <<pc, err, label_exists, args_brain_mask, mask_exists, out_exists,
          overwrite, warn_only, label_data, zooms, label_affine,
          brain_mask_data, mask_zooms, mask_affine, labels_id, idx, volumes,
          output_file>>

args == <<label_exists, args_brain_mask, mask_exists, out_exists, overwrite,
          warn_only>>
label_image == <<label_data, zooms, label_affine>>
mask_image == <<brain_mask_data, mask_zooms, mask_affine>>
loop == <<labels_id, idx, volumes>>

\* ------------------------------------------------------- array helpers
Abs(x) == IF x < 0 THEN -x ELSE x

RECURSIVE Gcd(_, _)
Gcd(a, b) == IF b = 0 THEN a ELSE Gcd(b, a % b)

\* a slip: the spacing of the first axis only
ProdFirstAxis(s) == Head(s)

\* np.prod over a tuple
RECURSIVE Prod(_)
Prod(s) == IF s = <<>> THEN 1 ELSE Head(s) * Prod(Tail(s))

\* np.sum over an array
RECURSIVE Sum(_)
Sum(s) == IF s = <<>> THEN 0 ELSE Head(s) + Sum(Tail(s))

\* a comparison slip: every voxel at or above the id counts
EqMaskAtLeast(data, v) == [i \in DOMAIN data |-> IF data[i] >= v THEN 1 ELSE 0]

\* label_data == label_id: the boolean array, True as 1
EqMask(data, v) == [i \in DOMAIN data |-> IF data[i] = v THEN 1 ELSE 0]

\* a slip: the background is not filtered out
KeepBackground(data) == data

\* label_data[label_data != 0]
NonZero(data) == SelectSeq(data, LAMBDA x : x # 0)

SeqRange(s) == {s[i] : i \in DOMAIN s}
SetMin(S) == CHOOSE x \in S : \A y \in S : x <= y

RECURSIVE SortedSeq(_)
SortedSeq(S) == IF S = {} THEN <<>>
                ELSE <<SetMin(S)>> \o SortedSeq(S \ {SetMin(S)})

\* np.unique: the distinct values, ascending
Unique(s) == SortedSeq(SeqRange(s))

\* numpy float division: x / 0 is inf (nan for 0 / 0), with a warning only
Div(a, b) ==
    IF b = 0
    THEN [kind |-> IF a = 0 THEN "nan" ELSE "inf", num |-> 0, den |-> 0]
    ELSE [kind |-> "finite",
          num |-> a \div Gcd(Abs(a), Abs(b)),
          den |-> b \div Gcd(Abs(a), Abs(b))]

\* np.allclose(a, b): |a - b| <= atol + rtol * |b| element-wise
AllClose(a, b) ==
    /\ Len(a) = Len(b)
    /\ \A i \in DOMAIN a :
          Abs(a[i] - b[i]) <= AtolUnits + (Abs(b[i]) \div RtolInv)

\* a slip: both checks must fail for the error
GeometryMismatchBoth ==
    /\ zooms' # mask_zooms'
    /\ ~AllClose(label_affine', mask_affine')

\* the condition of the if at lines 59-61
GeometryMismatch ==
    \/ zooms' # mask_zooms'
    \/ ~AllClose(label_affine', mask_affine')

\* ------------------------------------------------------------- the file
Absent == [kind |-> "absent", obj |-> <<>>]
OldContent == [kind |-> "old", obj |-> <<>>]
Truncated == [kind |-> "empty", obj |-> <<>>]
Json(v) == [kind |-> "json", obj |-> v]

InitialOutput == IF out_exists THEN OldContent ELSE Absent

\* ----------------------------------------------------------------- Init
Init ==
    /\ pc = "check_inputs"
    /\ err = ""
    /\ label_exists \in BOOLEAN
    /\ args_brain_mask \in BOOLEAN
    /\ mask_exists \in BOOLEAN
    /\ (~args_brain_mask => mask_exists = FALSE)
    /\ out_exists \in BOOLEAN
    /\ overwrite \in BOOLEAN
    /\ warn_only \in BOOLEAN
    /\ label_data = <<>>
    /\ zooms = <<>>
    /\ label_affine = <<>>
    /\ brain_mask_data = <<>>
    /\ mask_zooms = <<>>
    /\ mask_affine = <<>>
    /\ labels_id = <<>>
    /\ idx = 1
    /\ volumes = <<>>
    /\ output_file = InitialOutput

\* -------------------------------------------------------------- actions
Fail(e) == pc' = "error" /\ err' = e

\* assert_inputs_exist(parser, args.input_labels, args.brain_mask)
AssertInputsExist ==
    /\ pc = "check_inputs"
    /\ IF label_exists /\ (args_brain_mask => mask_exists)
       THEN pc' = "check_outputs" /\ err' = err
       ELSE Fail("InputNotFound")
    /\ UNCHANGED <<args, label_image, mask_image, loop, output_file>>

\* assert_outputs_exist(parser, args, args.output_json)
AssertOutputsExist ==
    /\ pc = "check_outputs"
    /\ IF out_exists /\ ~overwrite
       THEN Fail("OutputExists")
       ELSE pc' = "load_labels" /\ err' = err
    /\ UNCHANGED <<args, label_image, mask_image, loop, output_file>>

\* a slip: the output is opened before the images are read
LoadLabelsOpenFirst ==
    /\ pc = "load_labels"
    /\ label_data' \in [1..NumVoxels -> LabelValues]
    /\ zooms' \in ZoomChoices
    /\ label_affine' \in LabelAffines
    /\ pc' = "brain_mask"
    /\ output_file' = Truncated
    /\ UNCHANGED <<err, args, mask_image, loop>>

\* label_data, label_header, _ = load_image(...); zooms = ...get_zooms()
LoadLabels ==
    /\ pc = "load_labels"
    /\ label_data' \in [1..NumVoxels -> LabelValues]
    /\ zooms' \in ZoomChoices
    /\ label_affine' \in LabelAffines
    /\ pc' = "brain_mask"
    /\ UNCHANGED <<err, args, mask_image, loop, output_file>>

\* if args.brain_mask: load the mask and compare the two geometries
LoadBrainMask ==
    /\ pc = "brain_mask"
    /\ args_brain_mask
    /\ brain_mask_data' \in [1..NumMaskVoxels -> MaskValues]
    /\ mask_zooms' \in ZoomChoices
    /\ mask_affine' \in MaskAffines
    /\ UNCHANGED <<args, label_image, loop, output_file>>
    /\ IF GeometryMismatch
       THEN Fail("GeometryMismatch")
       ELSE pc' = "unique" /\ err' = err

NoBrainMask ==
    /\ pc = "brain_mask"
    /\ ~args_brain_mask
    /\ pc' = "unique"
    /\ UNCHANGED <<err, args, label_image, mask_image, loop, output_file>>

\* labels_id = np.unique(label_data[label_data != 0]); volumes = {}
UniqueLabels ==
    /\ pc = "unique"
    /\ labels_id' = Unique(NonZero(label_data))
    /\ idx' = 1
    /\ volumes' = <<>>
    /\ pc' = "loop"
    /\ UNCHANGED <<err, args, label_image, mask_image, output_file>>

\* d[k] = v on a dict held as a function
SetItem(d, k, v) == [x \in DOMAIN d \cup {k} |-> IF x = k THEN v ELSE d[x]]

\* np.sum(label_data == label_id) * np.prod(zooms)
LabelVolume(label_id) == Sum(EqMask(label_data, label_id)) * Prod(zooms)

\* a slip: the normalized field is left out when the mask sums to zero
EntryGuarded(label_id) ==
    LET e1 == SetItem(<<>>, "volume", LabelVolume(label_id))
    IN  IF args_brain_mask /\ Sum(brain_mask_data) # 0
        THEN SetItem(e1, "volume_normalized",
                     Div(LabelVolume(label_id), Sum(brain_mask_data)))
        ELSE e1

\* the body of the for loop, lines 68-74: the entry of label_id
Entry(label_id) ==
    LET e0 == IF label_id \in DOMAIN volumes THEN volumes[label_id] ELSE <<>>
        e1 == SetItem(e0, "volume", LabelVolume(label_id))
    IN  IF args_brain_mask
        THEN SetItem(e1, "volume_normalized",
                     Div(LabelVolume(label_id), Sum(brain_mask_data)))
        ELSE e1

\* one iteration of the for loop
LoopBody ==
    /\ pc = "loop"
    /\ idx <= Len(labels_id)
    /\ volumes' = SetItem(volumes, labels_id[idx], Entry(labels_id[idx]))
    /\ idx' = idx + 1
    /\ UNCHANGED <<pc, err, args, label_image, mask_image, labels_id,
                   output_file>>

\* a slip: a report without entries is refused
LoopExitNonEmpty ==
    /\ pc = "loop"
    /\ idx > Len(labels_id)
    /\ IF labels_id = <<>> THEN Fail("NoLabels") ELSE pc' = "open" /\ err' = err
    /\ UNCHANGED <<args, label_image, mask_image, loop, output_file>>

\* the for loop is exhausted
LoopExit ==
    /\ pc = "loop"
    /\ idx > Len(labels_id)
    /\ pc' = "open"
    /\ UNCHANGED <<err, args, label_image, mask_image, loop, output_file>>

\* with open(args.output_json, "w") as file
OpenOutput ==
    /\ pc = "open"
    /\ output_file' = Truncated
    /\ pc' = "dump"
    /\ UNCHANGED <<err, args, label_image, mask_image, loop>>

\* json.dump(volumes, file, indent=4)
JsonDump ==
    /\ pc = "dump"
    /\ output_file' = Json(volumes)
    /\ pc' = "done"
    /\ UNCHANGED <<err, args, label_image, mask_image, loop>>

Next ==
    \/ AssertInputsExist
    \/ AssertOutputsExist
    \/ LoadLabels
    \/ LoadBrainMask
    \/ NoBrainMask
    \/ UniqueLabels
    \/ LoopBody
    \/ LoopExit
    \/ OpenOutput
    \/ JsonDump

Spec == Init /\ [][Next]_vars

\* ======================================================== the claims
Report == output_file.obj
Written == pc = "done" /\ output_file.kind = "json"

NonZeroIds == {label_data[i] : i \in DOMAIN label_data} \ {0}
VoxelCount(id) == Cardinality({i \in DOMAIN label_data : label_data[i] = id})
VoxelVolume == zooms[1] * zooms[2] * zooms[3]
InMaskCount ==
    Cardinality({i \in DOMAIN brain_mask_data : brain_mask_data[i] # 0})
AllBackground == \A i \in DOMAIN label_data : label_data[i] = 0
MaskCompatible == zooms = mask_zooms /\ AllClose(label_affine, mask_affine)

\* the run is past both existence checks and has read the label image
LabelsLoaded ==
    \/ pc \in {"brain_mask", "unique", "loop", "open", "dump", "done"}
    \/ pc = "error" /\ err \notin {"InputNotFound", "OutputExists"}

\* the run is past the if at line 57
PastMaskCheck == LabelsLoaded /\ pc # "brain_mask"

RECURSIVE SumOfVolumes(_, _)
SumOfVolumes(rep, ids) ==
    IF ids = {} THEN 0
    ELSE LET id == CHOOSE x \in ids : TRUE
         IN  rep[id].volume + SumOfVolumes(rep, ids \ {id})

\* C1: the keys of the written report are exactly the distinct non-zero
\* values of the label volume: no entry for 0, K entries for K distinct ids.
C1_KeysAreNonZeroIds ==
    pc = "done" =>
        /\ output_file.kind = "json"
        /\ DOMAIN Report = NonZeroIds
        /\ 0 \notin DOMAIN Report
        /\ Cardinality(DOMAIN Report) = Cardinality(NonZeroIds)

C1_Witness ==
    /\ Written
    /\ Cardinality(DOMAIN Report) = 2
    /\ \E i \in DOMAIN label_data : label_data[i] = 0

\* C2: every entry's volume is the number of voxels holding that id times
\* the product of the three spacings, with or without a brain mask.
C2_VolumeIsCountTimesVoxelVolume ==
    pc = "done" =>
        \A id \in DOMAIN Report :
            Report[id].volume = VoxelCount(id) * VoxelVolume

C2_Witness ==
    /\ Written
    /\ args_brain_mask
    /\ zooms = <<1, 2, 3>>
    /\ \E id \in DOMAIN Report : VoxelCount(id) = 2 /\ Report[id].volume = 12

\* C3 (as claimed): with a brain mask, volume_normalized is volume divided
\* by the number of non-zero mask voxels, whatever values the mask holds.
C3_NormalizedByInMaskCount ==
    (Written /\ args_brain_mask /\ InMaskCount > 0) =>
        \A id \in DOMAIN Report :
            Report[id].volume_normalized = Div(Report[id].volume, InMaskCount)

\* C4 (as claimed): with a brain mask without any non-zero voxel and at
\* least one label, the run never completes and never writes a report.
C4_DegenerateMaskFails ==
    (PastMaskCheck /\ args_brain_mask /\ NonZeroIds # {} /\ InMaskCount = 0
       /\ MaskCompatible) =>
        /\ pc # "done"
        /\ output_file.kind # "json"

\* C5: past the geometry check the run has failed with the geometry error
\* exactly when a mask was given and its spacing differs or its transform
\* is not close; without a mask nothing of the mask is read or compared.
C5_GeometryErrorIff ==
    PastMaskCheck =>
        /\ (pc = "error" /\ err = "GeometryMismatch")
             <=> (args_brain_mask
                    /\ (zooms # mask_zooms
                          \/ ~AllClose(label_affine, mask_affine)))
        /\ ~args_brain_mask => mask_zooms = <<>> /\ mask_affine = <<>>

C5_Witness ==
    /\ pc = "error"
    /\ err = "GeometryMismatch"
    /\ zooms = mask_zooms
    /\ ~AllClose(label_affine, mask_affine)

\* C6 (as claimed): in warn-only mode a geometry mismatch does not abort
\* the run.
C6_WarnOnlyContinues ==
    (PastMaskCheck /\ warn_only /\ args_brain_mask /\ ~MaskCompatible) =>
        pc # "error"

\* C7: a label volume of background only, with no mask or with a mask of
\* matching geometry, never ends in an error, can always take its next
\* step until it is done, and writes the empty object.
C7_BackgroundOnlyGivesEmptyReport ==
    (LabelsLoaded /\ AllBackground
       /\ ((args_brain_mask /\ pc # "brain_mask") => MaskCompatible)) =>
        /\ pc # "error"
        /\ volumes = <<>>
        /\ pc = "done" => output_file = Json(<<>>)
        /\ pc # "done" => ENABLED Next

C7_Witness ==
    /\ Written
    /\ AllBackground
    /\ args_brain_mask
    /\ InMaskCount = 0
    /\ Report = <<>>

\* C8: the volumes of the report add up to the number of non-zero voxels
\* times the voxel volume.
C8_VolumesSumToForeground ==
    pc = "done" =>
        SumOfVolumes(Report, DOMAIN Report)
            = Cardinality({i \in DOMAIN label_data : label_data[i] # 0})
                * VoxelVolume

C8_Witness ==
    /\ Written
    /\ Cardinality(DOMAIN Report) = 2
    /\ \E i \in DOMAIN label_data : label_data[i] = 0
    /\ VoxelVolume = 8
    /\ SumOfVolumes(Report, DOMAIN Report) = 16

\* C9: every entry has volume; every entry has volume_normalized when a
\* brain mask was given and none has it otherwise.
C9_FieldsUniform ==
    /\ \A id \in DOMAIN volumes :
          DOMAIN volumes[id] =
              IF args_brain_mask THEN {"volume", "volume_normalized"}
              ELSE {"volume"}
    /\ pc = "done" => Report = volumes

C9_Witness ==
    /\ Written
    /\ args_brain_mask
    /\ InMaskCount = 0
    /\ Cardinality(DOMAIN Report) = 2
    /\ \A id \in DOMAIN Report : "volume_normalized" \in DOMAIN Report[id]

\* C10: the output is touched only once every check has passed and every
\* entry is computed; a run that ended in an error left it as it was.
C10_OutputOpenedLast ==
    /\ output_file # InitialOutput =>
          /\ pc \in {"dump", "done"}
          /\ idx > Len(labels_id)
          /\ DOMAIN volumes = NonZeroIds
    /\ pc = "error" => output_file = InitialOutput

C10_Witness ==
    /\ pc = "error"
    /\ err = "GeometryMismatch"
    /\ out_exists
    /\ overwrite
    /\ output_file = OldContent

====
